---- MODULE Spec2Model ----
(***************************************************************************)
(* Smart Dynamic Checklist (src/src/app/page.tsx): the item sanitizer, the *)
(* checklist store, the runner state, the visibility rule, the import flow *)
(* and the AI generation flow of the HomePage component.  Every handler is *)
(* one action; handleGenerate is two, split at its await.                  *)
(*                                                                         *)
(* Strings are sequences of character tokens, so that String.trim() is a   *)
(* computation.  A token such as "#1" stands for one value returned by     *)
(* crypto.randomUUID(); such values are fresh: they differ from each other *)
(* and from every string the user supplies.  Item ids are opaque strings:  *)
(* the names of Object.prototype members ("constructor", "toString", ...)  *)
(* are outside the id universe of this model.                              *)
(***************************************************************************)
EXTENDS Integers, Sequences, FiniteSets, TLC

VARIABLES
  items,              \* useState<ChecklistItem[]>            page.tsx:235
  runnerState,        \* useState<RunnerState>                page.tsx:236
  mode,               \* useState<Mode>                       page.tsx:233
  importJson,         \* useState("") : the pasted text       page.tsx:240
  error,              \* useState<string | null>              page.tsx:241
  showImport,         \* useState(false)                      page.tsx:242
  showImportConfirm,  \* useState(false)                      page.tsx:245
  storage,            \* localStorage (items and runner keys) page.tsx:17-18
  apiKey,             \* useState("") : the Gemini API key   page.tsx:237
  prompt,             \* useState("")                        page.tsx:238
  isGenerating,       \* useState(false)                     page.tsx:239
  showAI,             \* useState(false)                     page.tsx:243
  pending,            \* fetch calls of handleGenerate that have not settled
  storedKey,          \* localStorage "gemini-api-key"       page.tsx:282, 342
  mounted,            \* has the mount effect (page.tsx:254) run
  steps,              \* how many more user events this session handles
  hist,               \* the last handler that ran (name, item, outcome)
  askedFor,           \* the pasted text the pending confirmation was requested for
  input,              \* pure functions: the argument
  res1,               \* pure functions: the result of one application
  res2,               \* pure functions: the result of applying it to res1
  pc                  \* pure functions: how often it was applied

genVars == <<apiKey, prompt, isGenerating, showAI, pending, storedKey>>
appVars == <<items, runnerState, mode, importJson, error, showImport,
             showImportConfirm, storage, mounted, steps, genVars>>
funVars == <<input, res1, res2, pc>>
vars == <<items, runnerState, mode, importJson, error, showImport,
          showImportConfirm, storage, mounted, steps, hist, askedFor, input, res1, res2, pc,
          apiKey, prompt, isGenerating, showAI, pending, storedKey>>

-----------------------------------------------------------------------------
(* Bounds                                                                  *)

MaxRaw == 2       \* longest raw array handed to the sanitizer harness
MaxItems == 2     \* "Add Step" is offered while the store holds fewer items
MaxUuid == 2      \* how many random ids can be in use at once
MaxSteps == 7     \* handlers run in one session of Spec and of SpecCycle
MaxGenSteps == 7  \* handlers run in one session of SpecGen
MaxAllSteps == 5  \* handlers run in one session of SpecAll

-----------------------------------------------------------------------------
(* JSON values (the `unknown` entries of sanitizeChecklistItems)           *)

Undefined == [t |-> "undefined"]
Null == [t |-> "null"]
Num(n) == [t |-> "num", n |-> n]
Bool(b) == [t |-> "bool", b |-> b]
Str(s) == [t |-> "str", s |-> s]
Arr(a) == [t |-> "arr", a |-> a]
Obj(o) == [t |-> "obj", o |-> o]

\* JavaScript truthiness: !entry, `rawDependsOn &&`, Boolean(x), .filter(Boolean)
Truthy(v) ==
  CASE v.t = "undefined" -> FALSE
    [] v.t = "null" -> FALSE
    [] v.t = "num" -> v.n # 0
    [] v.t = "bool" -> v.b
    [] v.t = "str" -> v.s # <<>>
    [] OTHER -> TRUE

\* typeof v === "object" (null, arrays and objects)
TypeofObject(v) == v.t \in {"null", "arr", "obj"}

\* (entry as any).key : property read on an accepted entry
Get(entry, key) ==
  IF entry.t = "obj" /\ key \in DOMAIN entry.o THEN entry.o[key] ELSE Undefined

-----------------------------------------------------------------------------
(* Strings                                                                 *)

Space == " "

RECURSIVE TrimStart(_)
TrimStart(s) ==
  IF s # <<>> /\ Head(s) = Space THEN TrimStart(Tail(s)) ELSE s

RECURSIVE TrimEnd(_)
TrimEnd(s) ==
  IF s # <<>> /\ s[Len(s)] = Space THEN TrimEnd(SubSeq(s, 1, Len(s) - 1)) ELSE s

\* String.prototype.trim
Trim(s) == TrimEnd(TrimStart(s))

\* crypto.randomUUID(): the n-th value drawn
Uuid(n) == << "#" \o ToString(n) >>

\* new Date().toISOString() at time n
NowIso(n) == << "now" \o ToString(n) >>

\* the strings Date.parse accepts, among those the model uses
ValidDates == {<<"2024-01-01T00:00:00.000Z">>} \cup {NowIso(n) : n \in 0..9}

\* Number.isNaN(Date.parse(s))
DateParseIsNaN(s) == s \notin ValidDates

UntitledStep == <<"Untitled step">>

-----------------------------------------------------------------------------
(* sanitizeChecklistItems  (page.tsx:31-86)                                *)

\* xs.map(f) for a sequence
SeqMap(F(_), xs) == [i \in 1..Len(xs) |-> F(xs[i])]

IsStr(v) == v.t = "str"
StrOf(v) == v.s
NonEmpty(s) == s # <<>>

\* Array.from(new Set(xs)): first occurrences, in order
RECURSIVE Dedupe(_)
Dedupe(xs) ==
  IF xs = <<>> THEN <<>>
  ELSE LET init == Dedupe(SubSeq(xs, 1, Len(xs) - 1))
           last == xs[Len(xs)]
       IN IF \E i \in 1..Len(init) : init[i] = last THEN init ELSE Append(init, last)

\* typeof entry.id === "string" && entry.id.trim()   (false is modelled as <<>>:
\* both are falsy in `candidateId || crypto.randomUUID()`)
CandidateId(entry) ==
  LET v == Get(entry, "id") IN IF IsStr(v) THEN Trim(StrOf(v)) ELSE <<>>

\* the title after trimming, with the placeholder for an empty one
ResolveTitle(entry) ==
  LET v == Get(entry, "title")
      rawTitle == IF IsStr(v) THEN Trim(StrOf(v)) ELSE <<>>
  IN IF rawTitle # <<>> THEN rawTitle ELSE UntitledStep

\* description: passed through when a string, otherwise undefined
ResolveDescription(entry) ==
  LET v == Get(entry, "description") IN IF IsStr(v) THEN v ELSE Undefined

\* ResolveDependsOn with the Set built before the entries are trimmed
ResolveDependsOnDedupeFirst(rawDependsOn, id) ==
  IF rawDependsOn.t = "arr"
  THEN LET strings == Dedupe(SeqMap(StrOf, SelectSeq(rawDependsOn.a, IsStr)))
           trimmed == SeqMap(Trim, strings)
           kept == SelectSeq(trimmed, NonEmpty)
       IN SelectSeq(kept, LAMBDA dep : dep # id)
  ELSE <<>>

\* ResolveDependsOn without the filter that drops the item's own id
ResolveDependsOnKeepSelf(rawDependsOn, id) ==
  IF rawDependsOn.t = "arr"
  THEN Dedupe(SelectSeq(SeqMap(Trim, SeqMap(StrOf, SelectSeq(rawDependsOn.a, IsStr))), NonEmpty))
  ELSE <<>>

\* dependsOn: string entries, trimmed, empties dropped, the item's (final) id
\* dropped, de-duplicated; [] when the raw value is not an array
ResolveDependsOn(rawDependsOn, id) ==
  IF rawDependsOn.t = "arr"
  THEN LET strings == SeqMap(StrOf, SelectSeq(rawDependsOn.a, IsStr))
           trimmed == SeqMap(Trim, strings)
           kept == SelectSeq(trimmed, NonEmpty)
           notSelf == SelectSeq(kept, LAMBDA dep : dep # id)
       IN Dedupe(notSelf)
  ELSE <<>>

\* `rawDependsOn && !Array.isArray(rawDependsOn)`: the diagnostic is pushed
InvalidDependsOn(rawDependsOn) ==
  Truthy(rawDependsOn) /\ rawDependsOn.t # "arr"

\* createdAt: kept when Date.parse accepts it, otherwise the current time
ResolveCreatedAt(entry, now) ==
  LET v == Get(entry, "createdAt")
      rawCreatedAt == IF IsStr(v) THEN StrOf(v) ELSE <<>>
  IN IF DateParseIsNaN(rawCreatedAt) THEN now ELSE rawCreatedAt

\* NotAnObject without the `!entry` test (typeof null is "object")
NotAnObjectByTypeof(entry) == ~TypeofObject(entry)

\* `!entry || typeof entry !== "object"`
NotAnObject(entry) == ~Truthy(entry) \/ ~TypeofObject(entry)

\* SeenHas for a `seen` set that is never filled
SeenHasNever(seen, id) == FALSE

\* seen.has(id)
SeenHas(seen, id) == id \in seen

\* One iteration of the .map callback: acc is the state of the closure
\* (items accepted so far, messages, the `seen` set, how many of the fresh
\* random values have been drawn).
SanitizeEntry(acc, entry, index, fresh, now) ==
  IF NotAnObject(entry)
  THEN [acc EXCEPT !.messages = Append(@, [kind |-> "skipped", index |-> index])]
  ELSE
    LET candidateId == CandidateId(entry)
        drawn1 == IF candidateId # <<>> THEN acc.used ELSE acc.used + 1
        id0 == IF candidateId # <<>> THEN candidateId ELSE fresh[acc.used + 1]
        dup == SeenHas(acc.seen, id0)
        drawn2 == IF dup THEN drawn1 + 1 ELSE drawn1
        newId == id0 \o <<"-">> \o fresh[drawn1 + 1]
        id == IF dup THEN newId ELSE id0
        msgs1 == IF dup
                 THEN Append(acc.messages,
                        [kind |-> "duplicate", id |-> id0, index |-> index, newId |-> newId])
                 ELSE acc.messages
        title == ResolveTitle(entry)
        rawDependsOn == Get(entry, "dependsOn")
        msgs2 == IF InvalidDependsOn(rawDependsOn)
                 THEN Append(msgs1, [kind |-> "invalidDependsOn", title |-> title])
                 ELSE msgs1
        item == [id |-> id,
                 title |-> title,
                 description |-> ResolveDescription(entry),
                 dependsOn |-> ResolveDependsOn(rawDependsOn, id),
                 aiGenerated |-> Bool(Truthy(Get(entry, "aiGenerated"))),
                 createdAt |-> ResolveCreatedAt(entry, now)]
    IN [items |-> Append(acc.items, item),
        messages |-> msgs2,
        seen |-> acc.seen \cup {id},
        used |-> drawn2]

RECURSIVE SanitizeFrom(_, _, _, _, _)
SanitizeFrom(acc, rawArr, i, fresh, now) ==
  IF i > Len(rawArr) THEN acc
  ELSE SanitizeFrom(SanitizeEntry(acc, rawArr[i], i - 1, fresh, now), rawArr, i + 1, fresh, now)

\* sanitizeChecklistItems(raw): fresh is the sequence of values the calls of
\* crypto.randomUUID() return, now the value of new Date().toISOString()
sanitizeChecklistItems(rawArr, fresh, now) ==
  LET r == SanitizeFrom([items |-> <<>>, messages |-> <<>>, seen |-> {}, used |-> 0],
                        rawArr, 1, fresh, now)
  IN [items |-> r.items, messages |-> r.messages, used |-> r.used]

\* A ChecklistItem read back as an `unknown` entry (the item object itself, or
\* its JSON.stringify / JSON.parse image: an undefined property reads as
\* undefined in both)
ItemAsRaw(item) ==
  Obj([id |-> Str(item.id), title |-> Str(item.title), description |-> item.description,
       dependsOn |-> Arr(SeqMap(Str, item.dependsOn)), aiGenerated |-> item.aiGenerated,
       createdAt |-> Str(item.createdAt)])


-----------------------------------------------------------------------------
(* Inputs of the sanitizer                                                 *)

MkEntry(id, title, description, dependsOn, aiGenerated, createdAt) ==
  Obj([id |-> id, title |-> title, description |-> description,
       dependsOn |-> dependsOn, aiGenerated |-> aiGenerated, createdAt |-> createdAt])

ValidStamp == <<"2024-01-01T00:00:00.000Z">>

RawIdValues ==
  {Undefined, Str(<<"a">>), Str(<<" ", "a">>), Str(<<" ">>), Str(<<"b">>)}

RawDependsOnValues ==
  {Undefined, Num(0), Str(<<"a">>), Arr(<<>>), Arr(<<Str(<<"a">>)>>),
   Arr(<<Str(<<" ", "a">>), Str(<<"a">>), Str(<<"b">>)>>),
   Arr(<<Num(1), Str(<<" ">>), Str(<<"b">>), Str(<<"b">>)>>)}

\* dependsOn values that are present and are no array, next to 0 and "a" above
RawNonSequences == {Bool(FALSE), Bool(TRUE), Str(<<>>), Null, Obj([x |-> Num(1)])}

RawTitleValues == {Undefined, Str(<<" ", "t", " ">>), Str(<<" ">>)}

RawCreatedAtValues == {Undefined, Str(ValidStamp), Str(<<"yesterday">>)}

\* entries that are not objects, and an array (typeof [] is "object")
RawNonObjects == {Null, Num(5), Str(<<"not an object">>), Arr(<<>>)}

RawEntries ==
  RawNonObjects
  \cup {MkEntry(id, Str(<<"t">>), Undefined, deps, Undefined, Str(ValidStamp)) :
          id \in RawIdValues, deps \in RawDependsOnValues}
  \cup {MkEntry(Str(<<"a">>), title, Str(<<"d", " ">>), Undefined, Bool(TRUE), created) :
          title \in RawTitleValues, created \in RawCreatedAtValues}
  \cup {MkEntry(Str(<<"c">>), Str(<<"t">>), Undefined, deps, Undefined, Str(ValidStamp)) :
          deps \in RawNonSequences}
  \cup {MkEntry(Num(7), Num(1), Num(2), Undefined, Str(<<"no">>), Num(3)),
        MkEntry(Str(<<"dup">>), Str(<<"Step">>), Undefined, Undefined, Bool(FALSE), Undefined)}

SeqsUpTo(S, n) == UNION {[1..k -> S] : k \in 0..n}

RawArrays == SeqsUpTo(RawEntries, MaxRaw)

\* the values crypto.randomUUID() returns after k have been drawn
FreshFrom(k, n) == [i \in 1..n |-> Uuid(k + i)]

NoResult == [items |-> <<>>, messages |-> <<>>, used |-> 0]

-----------------------------------------------------------------------------
(* (the sanitizer is applied to these below, after the application state)  *)

-----------------------------------------------------------------------------
(* Text: the content of the import textarea and of localStorage entries    *)

EmptyText == [k |-> "empty"]            \* ""
BlankText == [k |-> "blank"]            \* white space only
Malformed == [k |-> "malformed"]        \* JSON.parse throws a SyntaxError
JsonText(v) == [k |-> "json", v |-> v]  \* the JSON text of the value v
RunnerText(m) == [k |-> "runner", m |-> m]  \* the JSON text of an id -> boolean object
NoItem == [k |-> "null"]                \* localStorage.getItem of a missing key

\* !text.trim()
IsBlank(text) == text.k \in {"empty", "blank"}

\* JSON.stringify drops the properties whose value is undefined
ItemToJson(item) ==
  LET full == [id |-> Str(item.id), title |-> Str(item.title),
               description |-> item.description,
               dependsOn |-> Arr(SeqMap(Str, item.dependsOn)),
               aiGenerated |-> item.aiGenerated, createdAt |-> Str(item.createdAt)]
      keys == {k \in DOMAIN full : full[k] # Undefined}
  IN Obj([k \in keys |-> full[k]])

\* JSON.stringify(items)
StringifyItems(its) == JsonText(Arr(SeqMap(ItemToJson, its)))

-----------------------------------------------------------------------------
(* Runner state and the visibility rule                                    *)

EmptyRun == [id \in {} |-> TRUE]

\* Lookup as `id in runnerState`
LookupPresent(rs, id) == id \in DOMAIN rs

\* runnerState[id] used as a condition
Lookup(rs, id) == id \in DOMAIN rs /\ rs[id]

\* IsVisible that shows the items without dependencies only
IsVisibleWithoutDependencies(item, rs) == Len(item.dependsOn) = 0

\* the filter callback of visibleRunnerItems (page.tsx:481-484)
IsVisible(item, rs) ==
  IF Len(item.dependsOn) = 0 THEN TRUE
  ELSE \A k \in 1..Len(item.dependsOn) : Lookup(rs, item.dependsOn[k])

\* visibleRunnerItems (page.tsx:480-485)
visibleRunnerItems(its, rs) == SelectSeq(its, LAMBDA item : IsVisible(item, rs))

\* completedCount (page.tsx:487)
completedCount(rs) == Cardinality(DOMAIN rs)

\* the condition of the "Complete!" badge and of the completion banner
\* (page.tsx:874, 885)
showsComplete(its, rs) == completedCount(rs) = Len(its) /\ Len(its) > 0

\* next = {...prev}; delete next[id]
Without(rs, id) == [k \in DOMAIN rs \ {id} |-> rs[k]]

\* next = {...prev}; next[id] = true
WithTrue(rs, id) == [k \in DOMAIN rs \cup {id} |-> IF k = id THEN TRUE ELSE rs[k]]

\* ToggleRun deciding on the presence of the key
ToggleRunByPresence(rs, id) == IF id \in DOMAIN rs THEN Without(rs, id) ELSE WithTrue(rs, id)

\* the updater of the runner checkbox (page.tsx:959-967)
ToggleRun(rs, id) == IF Lookup(rs, id) THEN Without(rs, id) ELSE WithTrue(rs, id)

\* CompleteRun without the copy of the previous entries
CompleteRunOnlyVisible(rs, visible) ==
  [k \in {visible[j].id : j \in 1..Len(visible)} |-> TRUE]

\* CompleteRun over every item of the store
CompleteRunAllItems(rs, visible) ==
  [k \in DOMAIN rs \cup {items[j].id : j \in 1..Len(items)} |-> TRUE]

\* the updater of "Complete All Visible" (page.tsx:1012-1018)
CompleteRun(rs, visible) ==
  LET ids == {visible[k].id : k \in 1..Len(visible)}
  IN [k \in DOMAIN rs \cup ids |-> IF k \in ids THEN TRUE ELSE rs[k]]

ItemIds(its) == {its[k].id : k \in 1..Len(its)}
VisibleIds(its, rs) == ItemIds(visibleRunnerItems(its, rs))
DepSet(item) == {item.dependsOn[k] : k \in 1..Len(item.dependsOn)}

\* the last handler that ran: its name, the item it was about, how it ended
Hist(op, id, outcome) == [op |-> op, id |-> id, outcome |-> outcome]

NoHist == [op |-> "none", id |-> <<>>, outcome |-> ""]

\* the save effects (page.tsx:288-294) after a render with these values
Saved(its, rs) == [items |-> StringifyItems(its), runner |-> RunnerText(rs)]

\* one more user event is handled (the settling of a fetch is not one)
Tick == steps > 0 /\ steps' = steps - 1

builderUnchanged ==
  UNCHANGED <<items, importJson, error, showImport, showImportConfirm, askedFor, genVars>>

-----------------------------------------------------------------------------
(* Runner mode                                                             *)

\* Toggle with a checkbox for every item of the store
ToggleAnyItem ==
  /\ Tick /\ mounted /\ mode = "runner" /\ Len(items) > 0
  /\ \E k \in 1..Len(items) :
       /\ runnerState' = ToggleRun(runnerState, items[k].id)
       /\ hist' = Hist("toggle", items[k].id, "")
  /\ storage' = Saved(items, runnerState')
  /\ builderUnchanged
  /\ UNCHANGED <<mode, mounted, input, res1, res2, pc>>

\* runner checkbox onChange (page.tsx:958-968); only visible items are rendered
Toggle ==
  /\ Tick /\ mounted /\ mode = "runner" /\ Len(items) > 0
  /\ \E k \in 1..Len(visibleRunnerItems(items, runnerState)) :
       LET item == visibleRunnerItems(items, runnerState)[k] IN
       /\ runnerState' = ToggleRun(runnerState, item.id)
       /\ hist' = Hist("toggle", item.id, "")
  /\ storage' = Saved(items, runnerState')
  /\ builderUnchanged
  /\ UNCHANGED <<mode, mounted, input, res1, res2, pc>>

\* "Complete All Visible" (page.tsx:1008-1022); confirm() may be declined
CompleteAllVisible ==
  /\ Tick /\ mounted /\ mode = "runner" /\ Len(items) > 0
  /\ completedCount(runnerState) > 0 /\ completedCount(runnerState) < Len(items)
  /\ \E ok \in BOOLEAN :
       /\ runnerState' = IF ok THEN CompleteRun(runnerState, visibleRunnerItems(items, runnerState))
                               ELSE runnerState
       /\ hist' = Hist("completeAll", <<>>, IF ok THEN "confirmed" ELSE "declined")
  /\ storage' = Saved(items, runnerState')
  /\ builderUnchanged
  /\ UNCHANGED <<mode, mounted, input, res1, res2, pc>>

\* ResetProgress that clears the run state whatever confirm() returns
ResetProgressUnasked ==
  /\ Tick /\ mounted /\ mode = "runner" /\ Len(items) > 0
  /\ completedCount(runnerState) > 0
  /\ \E ok \in BOOLEAN :
       /\ runnerState' = EmptyRun
       /\ hist' = Hist("reset", <<>>, IF ok THEN "confirmed" ELSE "declined")
  /\ storage' = Saved(items, runnerState')
  /\ builderUnchanged
  /\ UNCHANGED <<mode, mounted, input, res1, res2, pc>>

\* "Reset Progress" (page.tsx:1029-1043); confirm() may be declined
ResetProgress ==
  /\ Tick /\ mounted /\ mode = "runner" /\ Len(items) > 0
  /\ completedCount(runnerState) > 0
  /\ \E ok \in BOOLEAN :
       /\ runnerState' = IF ok THEN EmptyRun ELSE runnerState
       /\ hist' = Hist("reset", <<>>, IF ok THEN "confirmed" ELSE "declined")
  /\ storage' = Saved(items, runnerState')
  /\ builderUnchanged
  /\ UNCHANGED <<mode, mounted, input, res1, res2, pc>>

\* "Reset" in the "All tasks completed!" banner (page.tsx:885-902)
ResetBanner ==
  /\ Tick /\ mounted /\ mode = "runner" /\ Len(items) > 0
  /\ completedCount(runnerState) = Len(items)
  /\ \E ok \in BOOLEAN :
       /\ runnerState' = IF ok THEN EmptyRun ELSE runnerState
       /\ hist' = Hist("resetBanner", <<>>, IF ok THEN "confirmed" ELSE "declined")
  /\ storage' = Saved(items, runnerState')
  /\ builderUnchanged
  /\ UNCHANGED <<mode, mounted, input, res1, res2, pc>>

\* the mode switcher (page.tsx:541-566)
SwitchToBuilder ==
  /\ Tick /\ mounted /\ mode = "runner"
  /\ \E ok \in BOOLEAN :
       /\ (completedCount(runnerState) = 0) => ok
       /\ mode' = IF ok THEN "builder" ELSE mode
       /\ hist' = Hist("toBuilder", <<>>, IF ok THEN "confirmed" ELSE "declined")
  /\ builderUnchanged
  /\ UNCHANGED <<runnerState, storage, mounted, input, res1, res2, pc>>

SwitchToRunner ==
  /\ Tick /\ mounted /\ mode = "builder"
  /\ mode' = "runner"
  /\ hist' = Hist("toRunner", <<>>, "")
  /\ builderUnchanged
  /\ UNCHANGED <<runnerState, storage, mounted, input, res1, res2, pc>>


-----------------------------------------------------------------------------
(* Random ids in the application                                           *)

\* every id the state mentions
UsedIds ==
  ItemIds(items) \cup UNION {DepSet(items[k]) : k \in 1..Len(items)}
    \cup DOMAIN runnerState

RECURSIVE Ascending(_)
Ascending(S) ==
  IF S = {} THEN <<>>
  ELSE LET m == CHOOSE x \in S : \A y \in S : x <= y IN <<m>> \o Ascending(S \ {m})

\* the values the next calls of crypto.randomUUID() return: values that occur
\* nowhere in the state
FreshIds == SeqMap(Uuid, Ascending({n \in 1..MaxUuid : Uuid(n) \notin UsedIds}))

\* how many random values sanitizing rawArr draws
UuidsNeeded(rawArr) ==
  sanitizeChecklistItems(rawArr, FreshFrom(MaxUuid, Len(rawArr) + 1), NowIso(0)).used

-----------------------------------------------------------------------------
(* Builder mode: the checklist store                                       *)

\* createEmptyItem with a fixed id instead of a random one
createEmptyItemFixedId(id, now) ==
  [id |-> <<"new">>, title |-> <<>>, description |-> Str(<<>>), dependsOn |-> <<>>,
   aiGenerated |-> Undefined, createdAt |-> now]

\* createEmptyItem (page.tsx:21-29)
createEmptyItem(id, now) ==
  [id |-> id, title |-> <<>>, description |-> Str(<<>>), dependsOn |-> <<>>,
   aiGenerated |-> Undefined, createdAt |-> now]

\* "+ Add Step" / "Add Step Manually" (page.tsx:617-621, 825-829)
AddStep ==
  /\ Tick /\ mounted /\ mode = "builder"
  /\ Len(items) < MaxItems
  /\ FreshIds # <<>>
  /\ items' = Append(items, createEmptyItem(FreshIds[1], NowIso(1)))
  /\ hist' = Hist("add", FreshIds[1], "")
  /\ storage' = Saved(items', runnerState)
  /\ UNCHANGED <<runnerState, mode, importJson, error, showImport, showImportConfirm,
                 askedFor, mounted, input, res1, res2, pc, genVars>>

\* the dependency pill onClick (page.tsx:185-196) with onChangeDependencies
\* (page.tsx:852-854)
PillDependsOn(item, target) ==
  IF \E k \in 1..Len(item.dependsOn) : item.dependsOn[k] = target.id
  THEN SelectSeq(item.dependsOn, LAMBDA id : id # target.id)
  ELSE Append(item.dependsOn, target.id)

EditDependencies ==
  /\ Tick /\ mounted /\ mode = "builder"
  /\ \E i \in 1..Len(items), j \in 1..Len(items) :
       /\ items[j].id # items[i].id
       /\ items' = [k \in 1..Len(items) |->
                      IF items[k].id = items[i].id
                      THEN [items[k] EXCEPT !.dependsOn = PillDependsOn(items[i], items[j])]
                      ELSE items[k]]
       /\ hist' = Hist("editDeps", items[i].id, "")
  /\ storage' = Saved(items', runnerState)
  /\ UNCHANGED <<runnerState, mode, importJson, error, showImport, showImportConfirm,
                 askedFor, mounted, input, res1, res2, pc, genVars>>

\* Remove that also takes the id out of the other items' dependsOn
RemoveCascading(its, id) ==
  SeqMap(LAMBDA i : [i EXCEPT !.dependsOn = SelectSeq(@, LAMBDA d : d # id)],
         SelectSeq(its, LAMBDA i : i.id # id))

\* onDelete (page.tsx:855)
Remove(its, id) == SelectSeq(its, LAMBDA i : i.id # id)

\* Delete that also drops the run-state entry of the item
DeleteWithProgress ==
  /\ Tick /\ mounted /\ mode = "builder"
  /\ \E i \in 1..Len(items) :
       /\ items' = Remove(items, items[i].id)
       /\ runnerState' = Without(runnerState, items[i].id)
       /\ hist' = Hist("delete", items[i].id, "")
  /\ storage' = Saved(items', runnerState')
  /\ UNCHANGED <<mode, importJson, error, showImport, showImportConfirm,
                 askedFor, mounted, input, res1, res2, pc, genVars>>

Delete ==
  /\ Tick /\ mounted /\ mode = "builder"
  /\ \E i \in 1..Len(items) :
       /\ items' = Remove(items, items[i].id)
       /\ hist' = Hist("delete", items[i].id, "")
  /\ storage' = Saved(items', runnerState)
  /\ UNCHANGED <<runnerState, mode, importJson, error, showImport, showImportConfirm,
                 askedFor, mounted, input, res1, res2, pc, genVars>>

\* what the user types into the title and description fields
Titles == {<<>>, <<"Renamed">>}
Descriptions == {<<>>, <<"details">>}

\* onChangeTitle (page.tsx:846-848)
EditTitle ==
  /\ Tick /\ mounted /\ mode = "builder"
  /\ \E i \in 1..Len(items), v \in Titles :
       /\ items[i].title # v
       /\ items' = [k \in 1..Len(items) |->
                      IF items[k].id = items[i].id THEN [items[k] EXCEPT !.title = v]
                      ELSE items[k]]
       /\ hist' = Hist("editTitle", items[i].id, "")
  /\ storage' = Saved(items', runnerState)
  /\ UNCHANGED <<runnerState, mode, importJson, error, showImport, showImportConfirm,
                 askedFor, mounted, input, res1, res2, pc, genVars>>

\* onChangeDescription (page.tsx:849-851)
EditDescription ==
  /\ Tick /\ mounted /\ mode = "builder"
  /\ \E i \in 1..Len(items), v \in Descriptions :
       /\ items[i].description # Str(v)
       /\ items' = [k \in 1..Len(items) |->
                      IF items[k].id = items[i].id THEN [items[k] EXCEPT !.description = Str(v)]
                      ELSE items[k]]
       /\ hist' = Hist("editDescription", items[i].id, "")
  /\ storage' = Saved(items', runnerState)
  /\ UNCHANGED <<runnerState, mode, importJson, error, showImport, showImportConfirm,
                 askedFor, mounted, input, res1, res2, pc, genVars>>

\* arrayMove that exchanges the two elements
arrayMoveSwap(xs, from, to) ==
  [k \in 1..Len(xs) |-> IF k = from THEN xs[to] ELSE IF k = to THEN xs[from] ELSE xs[k]]

\* arrayMove of @dnd-kit/sortable: take the element out at `from`, put it in at `to`
arrayMove(xs, from, to) ==
  LET rest == SubSeq(xs, 1, from - 1) \o SubSeq(xs, from + 1, Len(xs))
  IN SubSeq(rest, 1, to - 1) \o <<xs[from]>> \o SubSeq(rest, to, Len(rest))

\* prev.findIndex(i => i.id === id)
findIndex(its, id) == CHOOSE k \in 1..Len(its) : its[k].id = id /\ \A j \in 1..(k - 1) : its[j].id # id

\* handleDragEnd (page.tsx:311-319): an item is dropped on another one
handleDragEnd ==
  /\ Tick /\ mounted /\ mode = "builder"
  /\ \E a \in 1..Len(items), o \in 1..Len(items) :
       /\ items[a].id # items[o].id
       /\ items' = arrayMove(items, findIndex(items, items[a].id), findIndex(items, items[o].id))
       /\ hist' = Hist("reorder", items[a].id, ToString(findIndex(items, items[o].id)))
  /\ storage' = Saved(items', runnerState)
  /\ UNCHANGED <<runnerState, mode, importJson, error, showImport, showImportConfirm,
                 askedFor, mounted, input, res1, res2, pc, genVars>>

-----------------------------------------------------------------------------
(* Import  (page.tsx:419-478 and the import panel, page.tsx:717-801)        *)

NoError == "null"

\* what the user can paste
PayloadA ==
  <<MkEntry(Str(<<"a">>), Str(<<"Create account">>), Undefined, Arr(<<>>), Undefined, Str(ValidStamp)),
    MkEntry(Str(<<"b">>), Str(<<"Configure billing">>), Undefined, Arr(<<Str(<<"a">>)>>), Undefined, Str(ValidStamp)),
    MkEntry(Str(<<"c">>), Str(<<"Invoice">>), Undefined, Arr(<<Str(<<"b">>)>>), Undefined, Str(ValidStamp))>>

PayloadGhost ==
  <<MkEntry(Str(<<"c">>), Str(<<"t">>), Undefined, Arr(<<Str(<<"ghost">>)>>), Undefined, Str(ValidStamp)),
    Str(<<"not an object">>)>>

PayloadDup ==
  <<MkEntry(Str(<<"dup">>), Str(<<"Step 2">>), Undefined, Undefined, Undefined, Str(ValidStamp)),
    MkEntry(Str(<<"dup">>), Str(<<"Step 3">>), Undefined, Arr(<<Str(<<"dup">>)>>), Undefined, Str(ValidStamp))>>

ImportTexts ==
  {BlankText, Malformed, JsonText(Num(1)), JsonText(PayloadA[1]), JsonText(Arr(<<>>)),
   JsonText(Arr(<<Null, Str(<<"not an object">>)>>)),
   JsonText(Arr(PayloadA)), JsonText(Arr(PayloadGhost)), JsonText(Arr(PayloadDup))}

\* NeedsConfirm without the guard
NeedsConfirmNever(its, confirm) == FALSE

\* the branch handleImport takes (page.tsx:424-456)
NeedsConfirm(its, confirm) == Len(its) > 0 /\ ~confirm

\* ImportOutcome without the check of the sanitized count
ImportOutcomeUnchecked(text, validated, its, confirm) ==
  IF IsBlank(text) THEN "blank"
  ELSE IF text.k # "json" THEN "syntax"
  ELSE IF text.v.t # "arr" THEN "notArray"
  ELSE IF Len(text.v.a) = 0 THEN "empty"
  ELSE IF Len(its) > 0 /\ ~confirm THEN "confirm"
  ELSE "installed"

ImportOutcome(text, validated, its, confirm) ==
  IF IsBlank(text) THEN "blank"
  ELSE IF text.k # "json" THEN "syntax"
  ELSE IF text.v.t # "arr" THEN "notArray"
  ELSE IF Len(text.v.a) = 0 THEN "empty"
  ELSE IF Len(validated) = 0 THEN "noValid"
  ELSE IF NeedsConfirm(its, confirm) THEN "confirm"
  ELSE "installed"

ImportError(outcome) ==
  CASE outcome = "blank" -> "Please paste JSON content"
    [] outcome = "syntax" -> "Invalid JSON format: Check for missing commas, brackets, or quotes"
    [] outcome = "notArray" -> "Invalid format: JSON must be an array of checklist items"
    [] outcome = "empty" -> "Cannot import empty checklist"
    [] outcome = "noValid" -> "No valid checklist items found in JSON"
    [] OTHER -> NoError

\* the array handleImport hands to the sanitizer, if it gets that far
ImportArray(text) ==
  IF text.k = "json" /\ text.v.t = "arr" THEN text.v.a ELSE <<>>

\* handleImport, started by the button `button`
handleImport(button) ==
  /\ UuidsNeeded(ImportArray(importJson)) <= Len(FreshIds)
  /\ LET validated == sanitizeChecklistItems(ImportArray(importJson), FreshIds, NowIso(2)).items
         outcome == ImportOutcome(importJson, validated, items, showImportConfirm)
         installed == outcome = "installed"
     IN /\ error' = ImportError(outcome)
        /\ items' = IF installed THEN validated ELSE items
        /\ showImport' = IF installed THEN FALSE ELSE showImport
        /\ importJson' = IF installed THEN EmptyText ELSE importJson
        /\ showImportConfirm' = IF outcome = "confirm" THEN TRUE
                                ELSE IF installed THEN FALSE ELSE showImportConfirm
        /\ askedFor' = IF outcome = "confirm" THEN importJson
                       ELSE IF installed THEN EmptyText ELSE askedFor
        /\ hist' = Hist(button, <<>>, outcome)
  /\ storage' = Saved(items', runnerState)
  /\ UNCHANGED <<runnerState, mode, mounted, input, res1, res2, pc, genVars>>

\* "Import Checklist" (page.tsx:773): disabled while the textarea is blank
ClickImport ==
  /\ Tick /\ mounted /\ mode = "builder" /\ showImport /\ ~showImportConfirm
  /\ ~IsBlank(importJson)
  /\ handleImport("import")

\* "Replace Checklist" in the confirmation panel (page.tsx:729-735)
ClickReplace ==
  /\ Tick /\ mounted /\ mode = "builder" /\ showImport /\ showImportConfirm
  /\ handleImport("replace")

\* Cancel in the confirmation panel (page.tsx:736-746)
CancelConfirm ==
  /\ Tick /\ mounted /\ mode = "builder" /\ showImport /\ showImportConfirm
  /\ showImportConfirm' = FALSE
  /\ showImport' = FALSE
  /\ importJson' = EmptyText
  /\ error' = NoError
  /\ askedFor' = EmptyText
  /\ hist' = Hist("cancelConfirm", <<>>, "")
  /\ UNCHANGED <<items, runnerState, mode, storage, mounted, input, res1, res2, pc, genVars>>

\* Cancel under the textarea (page.tsx:776-785)
CancelImport ==
  /\ Tick /\ mounted /\ mode = "builder" /\ showImport /\ ~showImportConfirm
  /\ showImport' = FALSE
  /\ importJson' = EmptyText
  /\ error' = NoError
  /\ hist' = Hist("cancelImport", <<>>, "")
  /\ UNCHANGED <<items, runnerState, mode, showImportConfirm, askedFor, storage, mounted,
                 input, res1, res2, pc, genVars>>

\* the "Import" button of the toolbar (page.tsx:634-644)
ToggleImportPanel ==
  /\ Tick /\ mounted /\ mode = "builder"
  /\ showImport' = ~showImport
  /\ showAI' = FALSE
  /\ error' = NoError
  /\ hist' = Hist("importPanel", <<>>, "")
  /\ UNCHANGED <<items, runnerState, mode, importJson, showImportConfirm, askedFor, storage,
                 mounted, input, res1, res2, pc, apiKey, prompt, isGenerating, pending,
                 storedKey>>

\* typing or pasting into the textarea (page.tsx:759-766)
TypeImport ==
  /\ Tick /\ mounted /\ mode = "builder" /\ showImport /\ ~showImportConfirm
  /\ \E text \in ImportTexts :
       /\ text # importJson
       /\ importJson' = text
  /\ error' = NoError
  /\ hist' = Hist("type", <<>>, "")
  /\ UNCHANGED <<items, runnerState, mode, showImport, showImportConfirm, askedFor, storage,
                 mounted, input, res1, res2, pc, genVars>>

-----------------------------------------------------------------------------
(* AI generation  (handleGenerate, page.tsx:328-395, and the panel,         *)
(* page.tsx:653-715)                                                       *)

\* the text stored under "gemini-api-key"
KeyText(key) == [k |-> "text", s |-> key]

\* what the user types into the key field and the prompt field
ApiKeys == {<<>>, <<" ">>, <<"k">>}
Prompts == {<<>>, <<" ">>, <<"p">>}

\* a JSON text wrapped in a ```json ... ``` fence
Fenced(text) == [k |-> "fenced", inner |-> text]

\* text.replace(/```json|```/g, "").trim()
CleanText(text) ==
  IF text.k = "fenced" THEN text.inner
  ELSE IF text.k = "blank" THEN EmptyText
  ELSE text

\* how a fetch can settle: it rejects, or it resolves to a response with a
\* status and, in data.candidates[0].content.parts[0].text, a text or nothing
Rejected == [k |-> "rejected"]
Http(ok, text) == [k |-> "http", ok |-> ok, text |-> text]

GenPayload ==
  <<MkEntry(Str(<<"g1">>), Str(<<"Sign up">>), Str(<<"d">>), Arr(<<>>), Bool(TRUE), Undefined),
    MkEntry(Str(<<"g2">>), Str(<<"Verify">>), Str(<<"d">>),
            Arr(<<Str(<<"g1">>), Str(<<"g2">>), Str(<<"g1">>)>>), Undefined, Undefined)>>

GenResponses ==
  {Rejected, Http(FALSE, NoItem), Http(TRUE, NoItem), Http(TRUE, EmptyText),
   Http(TRUE, BlankText), Http(TRUE, Malformed),
   Http(TRUE, JsonText(GenPayload[1])),
   Http(TRUE, JsonText(Arr(<<Null, Str(<<"not an object">>)>>))),
   Http(TRUE, JsonText(Arr(GenPayload))), Http(TRUE, Fenced(JsonText(Arr(GenPayload))))}

\* how the code after the fetch ends (page.tsx:371-391): with one of the four
\* throws, or at setItems with what the sanitizer returned
GenOutcome(resp) ==
  IF resp.k = "rejected" THEN "network"
  ELSE IF ~resp.ok THEN "status"
  ELSE IF resp.text.k \in {"null", "empty"} THEN "noText"
  ELSE IF CleanText(resp.text).k # "json" THEN "syntax"
  ELSE IF CleanText(resp.text).v.t # "arr" THEN "notArray"
  ELSE IF Len(sanitizeChecklistItems(CleanText(resp.text).v.a,
                FreshFrom(0, Len(CleanText(resp.text).v.a) + 1), NowIso(0)).items) = 0
       THEN "noValid"
  ELSE "generated"

\* the outcomes in which the code reaches setItems(validated) (page.tsx:383)
GenApplies(outcome) == outcome \in {"notArray", "noValid", "generated"}

GenError(outcome) ==
  CASE outcome = "network" -> "Failed to fetch"
    [] outcome = "status" -> "API error: 500"
    [] outcome = "noText" -> "No response from AI"
    [] outcome = "syntax" -> "Unexpected end of JSON input"
    [] outcome = "noKey" -> "Please enter your Gemini API key"
    [] outcome = "noPrompt" -> "Please enter a prompt"
    [] OTHER -> NoError

\* the array handleGenerate hands to the sanitizer, if it gets that far
GenArray(resp) ==
  IF GenApplies(GenOutcome(resp)) THEN ImportArray(CleanText(resp.text)) ELSE <<>>

\* GenerateDisabled without the in-flight flag
GenerateDisabledByFieldsOnly == apiKey = <<>> \/ prompt = <<>>

\* disabled={isGenerating || !apiKey || !prompt} (page.tsx:689)
GenerateDisabled == isGenerating \/ apiKey = <<>> \/ prompt = <<>>

\* the "AI Generate" button of the toolbar (page.tsx:602-615)
ToggleAIPanel ==
  /\ Tick /\ mounted /\ mode = "builder"
  /\ showAI' = ~showAI
  /\ showImport' = FALSE
  /\ error' = NoError
  /\ hist' = Hist("aiPanel", <<>>, "")
  /\ UNCHANGED <<items, runnerState, mode, importJson, showImportConfirm, askedFor, storage,
                 mounted, input, res1, res2, pc, apiKey, prompt, isGenerating, pending,
                 storedKey>>

\* "Generate with AI" of the empty store (page.tsx:818)
GenerateWithAI ==
  /\ Tick /\ mounted /\ mode = "builder" /\ Len(items) = 0
  /\ showAI' = TRUE
  /\ hist' = Hist("aiEmpty", <<>>, "")
  /\ UNCHANGED <<items, runnerState, mode, importJson, error, showImport, showImportConfirm,
                 askedFor, storage, mounted, input, res1, res2, pc, apiKey, prompt,
                 isGenerating, pending, storedKey>>

\* the X of the panel and its Cancel button (page.tsx:664-666, 702-704)
CloseAIPanel ==
  /\ Tick /\ mounted /\ mode = "builder" /\ showAI
  /\ showAI' = FALSE
  /\ hist' = Hist("closeAI", <<>>, "")
  /\ UNCHANGED <<items, runnerState, mode, importJson, error, showImport, showImportConfirm,
                 askedFor, storage, mounted, input, res1, res2, pc, apiKey, prompt,
                 isGenerating, pending, storedKey>>

\* the key field (page.tsx:673-679)
TypeApiKey ==
  /\ Tick /\ mounted /\ mode = "builder" /\ showAI
  /\ \E key \in ApiKeys : key # apiKey /\ apiKey' = key
  /\ hist' = Hist("typeKey", <<>>, "")
  /\ UNCHANGED <<items, runnerState, mode, importJson, error, showImport, showImportConfirm,
                 askedFor, storage, mounted, input, res1, res2, pc, prompt, showAI,
                 isGenerating, pending, storedKey>>

\* the prompt field (page.tsx:680-685)
TypePrompt ==
  /\ Tick /\ mounted /\ mode = "builder" /\ showAI
  /\ \E text \in Prompts : text # prompt /\ prompt' = text
  /\ hist' = Hist("typePrompt", <<>>, "")
  /\ UNCHANGED <<items, runnerState, mode, importJson, error, showImport, showImportConfirm,
                 askedFor, storage, mounted, input, res1, res2, pc, apiKey, showAI,
                 isGenerating, pending, storedKey>>

\* "Generate Checklist" (page.tsx:687-701): handleGenerate up to its await
\* (page.tsx:328-344)
ClickGenerate ==
  /\ Tick /\ mounted /\ mode = "builder" /\ showAI
  /\ ~GenerateDisabled
  /\ LET outcome == IF Trim(apiKey) = <<>> THEN "noKey"
                    ELSE IF Trim(prompt) = <<>> THEN "noPrompt"
                    ELSE "started"
         started == outcome = "started"
     IN /\ error' = GenError(outcome)
        /\ isGenerating' = IF started THEN TRUE ELSE isGenerating
        /\ storedKey' = IF started THEN KeyText(apiKey) ELSE storedKey
        /\ pending' = IF started THEN pending + 1 ELSE pending
        /\ hist' = Hist("generate", <<>>, outcome)
  /\ UNCHANGED <<items, runnerState, mode, importJson, showImport, showImportConfirm,
                 askedFor, storage, mounted, input, res1, res2, pc, apiKey, prompt, showAI>>

\* GenerateResponse with setIsGenerating(false) on the success path only
GenerateResponseNoFinally ==
  /\ mounted /\ pending > 0
  /\ \E resp \in GenResponses :
       LET outcome == GenOutcome(resp)
           applied == GenApplies(outcome)
           validated == sanitizeChecklistItems(GenArray(resp), FreshIds, NowIso(4)).items
       IN /\ UuidsNeeded(GenArray(resp)) <= Len(FreshIds)
          /\ items' = IF applied THEN validated ELSE items
          /\ showAI' = IF applied THEN FALSE ELSE showAI
          /\ showImport' = IF applied THEN FALSE ELSE showImport
          /\ prompt' = IF applied THEN <<>> ELSE prompt
          /\ error' = GenError(outcome)
          /\ isGenerating' = IF applied THEN FALSE ELSE isGenerating
          /\ hist' = Hist("response", <<>>, outcome)
  /\ pending' = pending - 1
  /\ storage' = Saved(items', runnerState)
  /\ UNCHANGED <<runnerState, mode, importJson, showImportConfirm, askedFor, mounted,
                 input, res1, res2, pc, apiKey, storedKey, steps>>

\* the fetch settles: handleGenerate after its await (page.tsx:371-394)
GenerateResponse ==
  /\ mounted /\ pending > 0
  /\ \E resp \in GenResponses :
       LET outcome == GenOutcome(resp)
           applied == GenApplies(outcome)
           validated == sanitizeChecklistItems(GenArray(resp), FreshIds, NowIso(4)).items
       IN /\ UuidsNeeded(GenArray(resp)) <= Len(FreshIds)
          /\ items' = IF applied THEN validated ELSE items
          /\ showAI' = IF applied THEN FALSE ELSE showAI
          /\ showImport' = IF applied THEN FALSE ELSE showImport
          /\ prompt' = IF applied THEN <<>> ELSE prompt
          /\ error' = GenError(outcome)
          /\ hist' = Hist("response", <<>>, outcome)
  /\ isGenerating' = FALSE
  /\ pending' = pending - 1
  /\ storage' = Saved(items', runnerState)
  /\ UNCHANGED <<runnerState, mode, importJson, showImportConfirm, askedFor, mounted,
                 input, res1, res2, pc, apiKey, storedKey, steps>>

-----------------------------------------------------------------------------
(* Start of a session: the mount effect and the save effects               *)

StoredKeys == {NoItem, KeyText(<<"k">>)}

StoredItems ==
  {NoItem, Malformed, JsonText(Arr(PayloadA))}

StoredRunner ==
  {NoItem, Malformed, RunnerText((<<"a">> :> FALSE) @@ (<<"gone">> :> TRUE))}

\* the load effect (page.tsx:254-286) followed by the save effects
\* (page.tsx:288-294)
Mount ==
  /\ Tick /\ ~mounted
  /\ mounted' = TRUE
  /\ items' = IF storage.items.k = "json"
              THEN sanitizeChecklistItems(ImportArray(storage.items), FreshIds, NowIso(3)).items
              ELSE items
  /\ runnerState' = IF storage.runner.k = "runner" THEN storage.runner.m ELSE runnerState
  /\ apiKey' = IF storedKey.k = "text" /\ storedKey.s # <<>> THEN storedKey.s ELSE apiKey
  /\ storage' = Saved(items', runnerState')
  /\ hist' = Hist("mount", <<>>, "")
  /\ UNCHANGED <<mode, importJson, error, showImport, showImportConfirm, askedFor,
                 input, res1, res2, pc, prompt, isGenerating, showAI, pending, storedKey>>

\* the useState initial values (page.tsx:233-247), before the mount effect
Constructed ==
  /\ items = <<>>
  /\ runnerState = EmptyRun
  /\ mode = "builder"
  /\ importJson = EmptyText
  /\ error = NoError
  /\ showImport = FALSE
  /\ showImportConfirm = FALSE
  /\ askedFor = EmptyText
  /\ apiKey = <<>> /\ prompt = <<>> /\ isGenerating = FALSE /\ showAI = FALSE
  /\ pending = 0
  /\ mounted = FALSE
  /\ hist = NoHist
  /\ input = <<>> /\ res1 = NoResult /\ res2 = NoResult /\ pc = "app"

Init ==
  /\ Constructed
  /\ storage \in [items : StoredItems, runner : StoredRunner]
  /\ storedKey = NoItem
  /\ steps = MaxSteps

Next ==
  \/ Mount
  \/ AddStep \/ EditDependencies \/ Delete
  \/ ToggleImportPanel \/ TypeImport \/ ClickImport \/ ClickReplace
  \/ CancelImport \/ CancelConfirm
  \/ SwitchToRunner \/ SwitchToBuilder
  \/ Toggle \/ CompleteAllVisible \/ ResetProgress

Spec == Init /\ [][Next]_vars

-----------------------------------------------------------------------------
(* A session in which checklists are generated and the store is edited     *)

GenInit ==
  /\ Constructed
  /\ storage \in [items : {NoItem, JsonText(Arr(SubSeq(PayloadA, 1, 2)))}, runner : {NoItem}]
  /\ storedKey \in StoredKeys
  /\ steps = MaxGenSteps

GenNext ==
  \/ Mount
  \/ ToggleAIPanel \/ GenerateWithAI \/ CloseAIPanel \/ TypeApiKey \/ TypePrompt
  \/ ClickGenerate \/ GenerateResponse
  \/ AddStep \/ EditTitle \/ EditDependencies \/ Delete \/ handleDragEnd
  \/ SwitchToRunner \/ SwitchToBuilder \/ Toggle

SpecGen == GenInit /\ [][GenNext]_vars

\* the same session when every fetch settles: it resolves or it rejects
SpecGenSettles == GenInit /\ [][GenNext]_vars /\ WF_vars(GenerateResponse)

-----------------------------------------------------------------------------
(* A session with every handler of the page                                *)

AllInit ==
  /\ Constructed
  /\ storage \in [items : {NoItem, JsonText(Arr(PayloadA))},
                   runner : {RunnerText((<<"a">> :> FALSE) @@ (<<"gone">> :> TRUE))}]
  /\ storedKey = KeyText(<<"k">>)
  /\ steps = MaxAllSteps

AllNext ==
  \/ Mount
  \/ AddStep \/ EditTitle \/ EditDescription \/ EditDependencies \/ Delete
  \/ handleDragEnd
  \/ ToggleImportPanel \/ TypeImport \/ ClickImport \/ ClickReplace
  \/ CancelImport \/ CancelConfirm
  \/ ToggleAIPanel \/ GenerateWithAI \/ CloseAIPanel \/ TypeApiKey \/ TypePrompt
  \/ ClickGenerate \/ GenerateResponse
  \/ SwitchToRunner \/ SwitchToBuilder
  \/ Toggle \/ CompleteAllVisible \/ ResetProgress \/ ResetBanner

SpecAll == AllInit /\ [][AllNext]_vars


-----------------------------------------------------------------------------
(* The sanitizer applied to an arbitrary array, and again to its own output *)

\* the application state after construction, with nothing stored
Idle ==
  /\ items = <<>> /\ runnerState = EmptyRun /\ mode = "builder"
  /\ importJson = EmptyText /\ error = NoError
  /\ showImport = FALSE /\ showImportConfirm = FALSE /\ askedFor = EmptyText
  /\ storage = [items |-> NoItem, runner |-> NoItem]
  /\ storedKey = NoItem
  /\ apiKey = <<>> /\ prompt = <<>> /\ isGenerating = FALSE /\ showAI = FALSE
  /\ pending = 0
  /\ mounted = FALSE /\ steps = 0 /\ hist = NoHist

SanInit ==
  /\ Idle
  /\ input \in RawArrays
  /\ res1 = NoResult
  /\ res2 = NoResult
  /\ pc = "start"

SanitizeFirst ==
  /\ pc = "start"
  /\ res1' = sanitizeChecklistItems(input, FreshFrom(0, Len(input) + 1), NowIso(1))
  /\ pc' = "once"
  /\ UNCHANGED <<appVars, hist, askedFor, input, res2>>

SanitizeSecond ==
  /\ pc = "once"
  /\ res2' = sanitizeChecklistItems(SeqMap(ItemAsRaw, res1.items),
                                    FreshFrom(res1.used, Len(res1.items) + 1), NowIso(2))
  /\ pc' = "twice"
  /\ UNCHANGED <<appVars, hist, askedFor, input, res1>>

SanNext == SanitizeFirst \/ SanitizeSecond

SpecSan == SanInit /\ [][SanNext]_vars

-----------------------------------------------------------------------------
(* The checkbox updater applied to an arbitrary run state, twice           *)

ToggleIds == {<<"a">>, <<"b">>, <<"c">>}

RunMaps == UNION {[D -> BOOLEAN] : D \in SUBSET ToggleIds}

ToggleInit ==
  /\ Idle
  /\ input \in [rs : RunMaps, id : ToggleIds]
  /\ res1 = EmptyRun
  /\ res2 = EmptyRun
  /\ pc = "start"

ToggleFirst ==
  /\ pc = "start"
  /\ res1' = ToggleRun(input.rs, input.id)
  /\ pc' = "once"
  /\ UNCHANGED <<appVars, hist, askedFor, input, res2>>

ToggleSecond ==
  /\ pc = "once"
  /\ res2' = ToggleRun(res1, input.id)
  /\ pc' = "twice"
  /\ UNCHANGED <<appVars, hist, askedFor, input, res1>>

ToggleNext == ToggleFirst \/ ToggleSecond

SpecToggle == ToggleInit /\ [][ToggleNext]_vars

-----------------------------------------------------------------------------
(* A run over a store that holds a dependency cycle and is not edited      *)

MkItem(id, dependsOn) ==
  [id |-> id, title |-> <<"t">>, description |-> Undefined, dependsOn |-> dependsOn,
   aiGenerated |-> Bool(FALSE), createdAt |-> ValidStamp]

CycleX == MkItem(<<"x">>, << <<"y">> >>)
CycleY == MkItem(<<"y">>, << <<"x">> >>)

\* items that may stand next to the cycle
CycleOthers ==
  {MkItem(<<"p">>, <<>>), MkItem(<<"q">>, << <<"p">> >>),
   MkItem(<<"r">>, << <<"x">> >>), MkItem(<<"s">>, << <<"p">>, <<"y">> >>)}

CyclePairs == {pair \in CycleOthers \X CycleOthers : pair[1] # pair[2]}

CycleStores ==
  {<<CycleX, CycleY>>} \cup
  {<<pair[1], CycleX, pair[2], CycleY>> : pair \in CyclePairs} \cup
  {<<CycleY, pair[1], pair[2], CycleX>> : pair \in CyclePairs}

CycleInit ==
  /\ items \in CycleStores
  /\ runnerState = EmptyRun
  /\ mode = "runner"
  /\ importJson = EmptyText /\ error = NoError
  /\ showImport = FALSE /\ showImportConfirm = FALSE /\ askedFor = EmptyText
  /\ storage = Saved(items, runnerState)
  /\ storedKey = NoItem
  /\ apiKey = <<>> /\ prompt = <<>> /\ isGenerating = FALSE /\ showAI = FALSE
  /\ pending = 0
  /\ mounted = TRUE /\ steps = MaxSteps /\ hist = NoHist
  /\ input = <<>> /\ res1 = NoResult /\ res2 = NoResult /\ pc = "app"

CycleNext ==
  \/ Toggle \/ CompleteAllVisible \/ ResetProgress
  \/ SwitchToBuilder \/ SwitchToRunner

SpecCycle == CycleInit /\ [][CycleNext]_vars

-----------------------------------------------------------------------------
(* A run over a well-formed store: every dependsOn entry is the id of an    *)
(* item of the store, and the dependencies hold no cycle                    *)

DagIds == {<<"p">>, <<"q">>, <<"r">>}

RECURSIVE SeqOfSet(_)
SeqOfSet(S) ==
  IF S = {} THEN <<>>
  ELSE LET x == CHOOSE y \in S : TRUE IN <<x>> \o SeqOfSet(S \ {x})

\* no cycle: the items can be ranked so that every dependency ranks lower
Acyclic(deps) ==
  \E rank \in [DagIds -> 1..Cardinality(DagIds)] :
    \A id \in DagIds : \A d \in deps[id] : rank[d] < rank[id]

DagRelations == {deps \in [DagIds -> SUBSET DagIds] : Acyclic(deps)}

DagOrders == {o \in [1..Cardinality(DagIds) -> DagIds] : \A i, j \in DOMAIN o : o[i] = o[j] => i = j}

DagStores ==
  {[k \in DOMAIN o |-> MkItem(o[k], SeqOfSet(deps[o[k]]))] : o \in DagOrders, deps \in DagRelations}

DagInit ==
  /\ items \in DagStores
  /\ runnerState = EmptyRun
  /\ mode = "runner"
  /\ importJson = EmptyText /\ error = NoError
  /\ showImport = FALSE /\ showImportConfirm = FALSE /\ askedFor = EmptyText
  /\ storage = Saved(items, runnerState)
  /\ storedKey = NoItem
  /\ apiKey = <<>> /\ prompt = <<>> /\ isGenerating = FALSE /\ showAI = FALSE
  /\ pending = 0
  /\ mounted = TRUE /\ steps = MaxSteps /\ hist = NoHist
  /\ input = <<>> /\ res1 = NoResult /\ res2 = NoResult /\ pc = "app"

DagNext == Toggle \/ CompleteAllVisible \/ ResetProgress \/ ResetBanner

SpecDag == DagInit /\ [][DagNext]_vars


-----------------------------------------------------------------------------
(* Properties                                                              *)

Range(xs) == {xs[k] : k \in 1..Len(xs)}

C2_DanglingNeverActionable ==
  \A k \in 1..Len(items) :
    (\E d \in DepSet(items[k]) : d \notin ItemIds(items))
      => items[k] \notin Range(visibleRunnerItems(items, runnerState))

\* C3: in a store holding x (dependsOn [y]) and y (dependsOn [x]) that is not
\* edited, starting from the empty run state, x and y are never actionable and
\* never marked completed.
C3_CycleNeverActionable ==
  \A id \in {<<"x">>, <<"y">>} :
    /\ id \notin VisibleIds(items, runnerState)
    /\ ~(id \in DOMAIN runnerState /\ runnerState[id])

\* C3 happens: the bulk action ran over a store with the cycle and completed
\* the items outside it
C3_Witness ==
  /\ hist.op = "completeAll" /\ hist.outcome = "confirmed"
  /\ {<<"x">>, <<"y">>} \subseteq ItemIds(items)
  /\ \E id \in ItemIds(items) : id \in DOMAIN runnerState /\ runnerState[id]

\* C4: sanitizing the items the sanitizer returned gives the same items (same
\* fields, same order) and no diagnostics.
C4_SanitizeIdempotent ==
  (pc = "twice") => (res2.items = res1.items /\ res2.messages = <<>>)

\* C4 happens: the first application had to repair its input
C4_Witness ==
  /\ pc = "twice"
  /\ Len(res1.items) = 2
  /\ \E m \in Range(res1.messages) : m.kind = "duplicate"
  /\ \E k \in 1..Len(input) :
       Get(input[k], "dependsOn").t = "arr" /\ Len(Get(input[k], "dependsOn").a) > 1

\* the position in the result of the item made from the accepted entry i
ItemIndex(rawArr, i) == Cardinality({j \in 1..i : rawArr[j].t \in {"obj", "arr"}})

\* C5: for an entry whose raw dependsOn includes the entry's own id, the
\* sanitized item's dependsOn contains neither the id the entry was given in
\* the raw input nor the item's final id (also when the id was rewritten
\* because it collided with an earlier entry).
C5_SelfReferenceStripped ==
  (pc # "start") =>
    \A i \in 1..Len(input) :
      LET rawId == Get(input[i], "id")
          rawDeps == Get(input[i], "dependsOn")
      IN (/\ input[i].t = "obj" /\ rawId.t = "str" /\ rawDeps.t = "arr"
          /\ \E k \in 1..Len(rawDeps.a) : rawDeps.a[k] = rawId)
         => LET item == res1.items[ItemIndex(input, i)]
            IN /\ rawId.s \notin DepSet(item)
               /\ item.id \notin DepSet(item)

\* C6: the ids of the returned items are pairwise distinct; when two entries
\* carry the same id (the same non-blank string), both are kept, the later one
\* gets a different id and a diagnostic names the collision.
C6_DistinctIds ==
  (pc # "start") =>
    /\ \A i, j \in 1..Len(res1.items) : i # j => res1.items[i].id # res1.items[j].id
    /\ \A i, j \in 1..Len(input) :
         LET idI == Get(input[i], "id")
             idJ == Get(input[j], "id")
         IN (/\ i < j /\ input[i].t = "obj" /\ input[j].t = "obj"
             /\ idI.t = "str" /\ idJ.t = "str"
             /\ Trim(idI.s) = Trim(idJ.s) /\ Trim(idI.s) # <<>>)
            => /\ ItemIndex(input, i) < ItemIndex(input, j)
               /\ ItemIndex(input, j) <= Len(res1.items)
               /\ res1.items[ItemIndex(input, j)].id # Trim(idJ.s)
               /\ res1.items[ItemIndex(input, j)].id # res1.items[ItemIndex(input, i)].id
               /\ \E m \in Range(res1.messages) :
                    m.kind = "duplicate" /\ m.index = j - 1 /\ m.id = Trim(idJ.s)

\* C6 happens: two entries with the same id were sanitized
C6_Witness ==
  /\ pc = "once"
  /\ Len(input) = 2 /\ Len(res1.items) = 2
  /\ Get(input[1], "id") = Get(input[2], "id") /\ Get(input[1], "id").t = "str"
  /\ \E m \in Range(res1.messages) : m.kind = "duplicate"

\* the pasted text is one that handleImport must reject
UselessPayload(text) ==
  \/ text.k # "json"
  \/ text.v.t # "arr"
  \/ Len(text.v.a) = 0
  \/ \A k \in 1..Len(text.v.a) : text.v.a[k].t \notin {"obj", "arr"}

\* C7: an import attempt whose payload is blank, not JSON, not an array, an
\* empty array or without a valid item leaves the store and the run state as
\* they were and sets an error message.
C7_FailedImportAtomic ==
  [][(hist'.op \in {"import", "replace"} /\ UselessPayload(importJson))
       => (items' = items /\ runnerState' = runnerState /\ error' # NoError)]_vars

\* C7 happens: an array without a valid item was rejected over a non-empty
\* store and a non-empty run state
C7_Witness ==
  /\ hist.op = "import" /\ hist.outcome = "noValid"
  /\ items # <<>> /\ runnerState # EmptyRun /\ error # NoError

C9_BulkCompleteMonotone ==
  [][(hist'.op = "completeAll" /\ hist'.outcome = "confirmed")
       => /\ VisibleIds(items, runnerState) \subseteq VisibleIds(items', runnerState')
          /\ \A id \in VisibleIds(items, runnerState) :
               id \in DOMAIN runnerState' /\ runnerState'[id]]_vars

\* C9 happens: the bulk action ran and unlocked the rest of the store
C9_Witness ==
  /\ hist.op = "completeAll" /\ hist.outcome = "confirmed"
  /\ Len(items) > 1
  /\ VisibleIds(items, runnerState) = ItemIds(items)

\* C10: over a non-empty store an import replaces the store only by "Replace
\* Checklist" after the confirmation was requested for the same payload; the
\* "Import Checklist" click does not change a non-empty store; Cancel in the
\* confirmation changes neither store nor run state and clears the request.
C10_ImportNeedsConfirmation ==
  [][/\ (/\ hist'.op \in {"import", "replace"} /\ items # <<>>
         /\ (items' # items \/ hist'.outcome = "installed"))
          => (hist'.op = "replace" /\ showImportConfirm /\ askedFor = importJson)
     /\ (hist'.op = "import" /\ items # <<>>) => items' = items
     /\ (hist'.op = "cancelConfirm")
          => (items' = items /\ runnerState' = runnerState /\ ~showImportConfirm')]_vars

\* C10 happens: a non-empty store was replaced after the confirmation
C10_Witness ==
  /\ hist.op = "replace" /\ hist.outcome = "installed"
  /\ items # <<>> /\ ~showImportConfirm /\ importJson = EmptyText

\* C11: "Reset Progress", when confirmed, leaves the run state with no entries
\* and the checklist store unchanged; when declined, it leaves both unchanged.
C11_ResetProgress ==
  [][(hist'.op = "reset") =>
       /\ items' = items
       /\ storage'.items = storage.items
       /\ (hist'.outcome = "confirmed") => runnerState' = EmptyRun
       /\ (hist'.outcome = "declined") => runnerState' = runnerState]_vars

C11_Witness ==
  /\ hist.op = "reset" /\ hist.outcome = "confirmed"
  /\ Len(items) > 0 /\ runnerState = EmptyRun

\* the outcomes of a generation request that are failures
GenFailures == {"network", "status", "noText", "syntax", "notArray", "noValid"}

\* C12: when a generation request ends in failure (network error, non-OK
\* status, no text, unparseable text, a parsed value that is not an array, zero
\* valid items), the store is what it was before and an error message is set;
\* generation never turns a non-empty store into an empty one.
C12_FailedGenerationAtomic ==
  [][(hist'.op = "response") =>
       /\ (hist'.outcome \in GenFailures) => (items' = items /\ error' # NoError)
       /\ (Len(items) > 0) => Len(items') > 0]_vars

\* C13: when the generation panel is dismissed while a request is pending,
\* the response of that request does not change the store.
C13_DismissedResponseDiscarded ==
  [][(hist.op = "closeAI" /\ pending > 0 /\ hist'.op = "response") => items' = items]_vars

\* C14: at most one generation request is in flight, and none can be started
\* while one is pending (also after the panel was closed and reopened); adding,
\* editing, deleting, reordering and toggling stay enabled while it is pending.
C14_OneRequestInFlight ==
  /\ pending <= 1
  /\ (pending > 0) => ~ENABLED ClickGenerate
  /\ (pending > 0 /\ steps > 0 /\ mode = "builder") =>
       /\ (Len(items) < MaxItems /\ FreshIds # <<>>) => ENABLED AddStep
       /\ (Len(items) > 0) => (ENABLED EditTitle /\ ENABLED Delete)
       /\ (Len(items) > 1) => (ENABLED EditDependencies /\ ENABLED handleDragEnd)
  /\ (pending > 0 /\ steps > 0 /\ mode = "runner"
        /\ Len(visibleRunnerItems(items, runnerState)) > 0) => ENABLED Toggle

C14_Witness ==
  /\ pending = 1 /\ hist.op = "aiPanel" /\ showAI
  /\ apiKey # <<>> /\ prompt # <<>> /\ steps > 0

\* C15: a successful generation adds the generated steps: every item that is
\* in the store when the response is applied is in the store, unchanged,
\* afterwards.
C15_GenerationKeepsItems ==
  [][(hist'.op = "response" /\ hist'.outcome = "generated") =>
       \A k \in 1..Len(items) : \E j \in 1..Len(items') : items'[j] = items[k]]_vars

\* C16: the API key lives in the in-memory session state only: no operation
\* writes it to the persistent browser storage, and a session starts with an
\* empty key.
C16_KeyOnlyInMemory ==
  [][/\ storedKey' = storedKey
     /\ (hist'.op = "mount") => apiKey' = <<>>]_vars

\* C17: in every state reachable by loading, adding, editing, deleting,
\* reordering, importing and generating, the ids of the store's items are
\* pairwise distinct.
C17_StoreIdsDistinct ==
  \A i, j \in 1..Len(items) : i # j => items[i].id # items[j].id

C17_Witness ==
  /\ hist.op = "response" /\ hist.outcome = "generated"
  /\ Len(items) = 2 /\ items[1].id = <<"g1">> /\ items[2].id = <<"g2">>

\* the handlers that edit the store, and those that edit the run state
StoreOps ==
  {"add", "editTitle", "editDescription", "editDeps", "delete", "reorder",
   "import", "replace", "response", "toBuilder", "toRunner"}
RunOps == {"toggle", "completeAll", "reset", "resetBanner"}

\* C18: add, edit (title, description, dependencies), delete, reorder,
\* import, generation and mode switching leave the run state unchanged;
\* toggle, complete-all-visible and reset leave the store unchanged.
C18_StoreAndRunSeparate ==
  [][/\ (hist'.op \in StoreOps) => runnerState' = runnerState
     /\ (hist'.op \in RunOps) => items' = items]_vars

C18_Witness ==
  /\ hist.op = "delete"
  /\ hist.id \in DOMAIN runnerState /\ runnerState[hist.id]
  /\ hist.id \notin ItemIds(items)

\* the positions of the entries of rawArr that are objects (typeof "object",
\* not null)
ObjectEntries(rawArr) == {i \in 1..Len(rawArr) : rawArr[i].t \in {"obj", "arr"}}

C20_CompletedCountIsTrueCount ==
  completedCount(runnerState) = Cardinality({id \in DOMAIN runnerState : runnerState[id]})

\* C21: in every state reachable by store edits (add, delete, import) and
\* run-state operations, "Complete!" is shown if and only if the store is not
\* empty and every item of the store is completed in the run state.  (Stated
\* for the run states without a false flag: those are the ones the handlers
\* of the page produce.)
C21_CompleteIffAllDone ==
  (mounted /\ \A id \in DOMAIN runnerState : runnerState[id]) =>
    (showsComplete(items, runnerState)
       <=> (Len(items) > 0 /\ \A k \in 1..Len(items) : Lookup(runnerState, items[k].id)))

\* C22: every item a successful generation installs is tagged aiGenerated =
\* true, whatever flag the generated entry carries; an item created by
\* "Add Step" is not tagged.
C22_GeneratedItemsTagged ==
  [][/\ (hist'.op = "response" /\ hist'.outcome = "generated") =>
          \A k \in 1..Len(items') : items'[k].aiGenerated = Bool(TRUE)
     /\ (hist'.op = "add") =>
          \A k \in 1..Len(items') :
            items'[k].id = hist'.id => items'[k].aiGenerated # Bool(TRUE)]_vars

\* C23: a checkbox toggle or "Complete All Visible" changes an item's flag
\* from not completed to completed only if the item is actionable in the state
\* in which the handler runs; a blocked item is never marked completed.
C23_OnlyActionableCompleted ==
  [][(hist'.op \in {"toggle", "completeAll"}) =>
       \A k \in 1..Len(items) :
         (~Lookup(runnerState, items[k].id) /\ Lookup(runnerState', items[k].id))
           => items[k].id \in VisibleIds(items, runnerState)]_vars

C23_Witness ==
  /\ hist.op = "toggle" /\ Lookup(runnerState, hist.id)
  /\ \E k \in 1..Len(items) :
       /\ items[k].id = hist.id /\ Len(items[k].dependsOn) > 0
       /\ \E j \in 1..Len(items) : ~IsVisible(items[j], runnerState)

\* C24: removing an item deletes exactly that item: the other items keep
\* their fields and their relative order, the removed id stays in every
\* dependsOn that held it, and the run-state entry of the removed item stays.
C24_RemoveExactlyOne ==
  [][(hist'.op = "delete") =>
       /\ hist'.id \in ItemIds(items) /\ hist'.id \notin ItemIds(items')
       /\ Len(items') = Len(items) - 1
       /\ \E at \in 1..Len(items) :
            /\ items[at].id = hist'.id
            /\ \A k \in 1..Len(items') : items'[k] = items[IF k < at THEN k ELSE k + 1]
       /\ runnerState' = runnerState]_vars

C24_Witness ==
  /\ hist.op = "delete" /\ hist.id \notin ItemIds(items)
  /\ hist.id \in DOMAIN runnerState
  /\ \E k \in 1..Len(items) : hist.id \in DepSet(items[k])
  /\ Len(items) = 2

\* C25: a drag-reorder changes positions only: the store holds the same items
\* with the same fields, the moved item is at the position of the item it was
\* dropped on and the others keep their relative order, and the set of
\* actionable ids is what it was; the actionable list is always in store order.
C25_ReorderOnlyMoves ==
  [][/\ (hist'.op = "reorder") =>
          /\ Len(items') = Len(items)
          /\ \E to \in 1..Len(items) :
               /\ ToString(to) = hist'.outcome
               /\ items'[to].id = hist'.id
               /\ items[to].id # hist'.id
               /\ items'[to] = items[findIndex(items, hist'.id)]
          /\ Remove(items', hist'.id) = Remove(items, hist'.id)
          /\ VisibleIds(items', runnerState') = VisibleIds(items, runnerState)
     /\ LET visible == visibleRunnerItems(items', runnerState')
        IN \A i, j \in 1..Len(visible) :
             i < j => findIndex(items', visible[i].id) < findIndex(items', visible[j].id)]_vars

C25_Witness ==
  /\ hist.op = "reorder" /\ hist.id = <<"a">> /\ hist.outcome = "3"
  /\ Len(items) = 3 /\ items[1].id = <<"b">> /\ items[2].id = <<"c">> /\ items[3].id = <<"a">>
  /\ items[1].dependsOn = << <<"a">> >>

\* the entries of rawArr that carry a dependsOn that is not an array
NonSequenceDependsOn(rawArr) ==
  {i \in 1..Len(rawArr) :
     /\ rawArr[i].t = "obj"
     /\ Get(rawArr[i], "dependsOn") # Undefined
     /\ Get(rawArr[i], "dependsOn").t # "arr"}

\* C26: for every entry whose dependsOn is present and is not a sequence (a
\* number, 0 included; a boolean, false included; a string, "" included; null;
\* an object) the item has an empty dependsOn and a diagnostic is emitted; of
\* a sequence only the string entries are kept, trimmed, without empties and
\* duplicates.
C26_NonSequenceDependsOn ==
  (pc # "start") =>
    /\ \A i \in NonSequenceDependsOn(input) :
         res1.items[ItemIndex(input, i)].dependsOn = <<>>
    /\ Cardinality({m \in 1..Len(res1.messages) : res1.messages[m].kind = "invalidDependsOn"})
         = Cardinality(NonSequenceDependsOn(input))
    /\ \A i \in 1..Len(input) :
         (input[i].t = "obj" /\ Get(input[i], "dependsOn").t = "arr") =>
           LET raw == Get(input[i], "dependsOn").a
               deps == res1.items[ItemIndex(input, i)].dependsOn
           IN /\ \A k \in 1..Len(deps) :
                   /\ deps[k] # <<>>
                   /\ \E j \in 1..Len(raw) : raw[j].t = "str" /\ Trim(raw[j].s) = deps[k]
                   /\ \A l \in 1..Len(deps) : deps[l] = deps[k] => l = k

\* what the load effect or an import makes of the serialized store
ReadBack(its) ==
  sanitizeChecklistItems(ImportArray(StringifyItems(its)),
                         FreshFrom(MaxUuid, Len(its) + 1), NowIso(5)).items

\* C27: save/load and export/import are round trips: serializing the store
\* (also one that holds an "Add Step" item whose title is still empty) and
\* feeding the text back through load or import yields the same items in the
\* same order, with the same id, title, description, dependsOn and createdAt.
C27_RoundTrip ==
  mounted =>
    /\ Len(ReadBack(items)) = Len(items)
    /\ \A k \in 1..Len(items) :
         /\ ReadBack(items)[k].id = items[k].id
         /\ ReadBack(items)[k].title = items[k].title
         /\ ReadBack(items)[k].description = items[k].description
         /\ ReadBack(items)[k].dependsOn = items[k].dependsOn
         /\ ReadBack(items)[k].createdAt = items[k].createdAt

\* C28: in every state reachable by load, add step, dependency-pill toggles,
\* import and generation, no item of the store has its own id in its
\* dependsOn, and no dependsOn holds the same id twice.
C28_NoSelfNoDuplicateDependency ==
  \A k \in 1..Len(items) :
    /\ items[k].id \notin DepSet(items[k])
    /\ Cardinality(DepSet(items[k])) = Len(items[k].dependsOn)

C28_Witness ==
  /\ hist.op = "response" /\ hist.outcome = "generated"
  /\ Len(items) = 2 /\ items[2].id = <<"g2">> /\ items[2].dependsOn = << <<"g1">> >>

\* C29: the in-flight flag always clears: a started request whose fetch
\* resolves or rejects resets the flag on the success path and on every error
\* path, so that generation can be retried; a click rejected for a blank key
\* or a blank prompt does not set the flag.
C29_FlagAlwaysClears ==
  /\ isGenerating ~> ~isGenerating
  /\ [][(hist'.op = "response") => ~isGenerating']_vars
  /\ [][(hist'.op = "generate" /\ hist'.outcome \in {"noKey", "noPrompt"})
          => (~isGenerating' /\ pending' = pending)]_vars

C29_Witness ==
  /\ hist.op = "response" /\ hist.outcome = "syntax"
  /\ ~isGenerating /\ pending = 0
  /\ showAI /\ mode = "builder" /\ steps > 0 /\ ENABLED ClickGenerate

\* the items of the store that are not completed, and those of them that are
\* actionable
Open(its, rs) == SelectSeq(its, LAMBDA item : ~Lookup(rs, item.id))
OpenActionable(its, rs) == SelectSeq(visibleRunnerItems(its, rs), LAMBDA item : ~Lookup(rs, item.id))

\* whichever actionable item is ticked next, the run is complete after at most
\* m ticks
RECURSIVE CompletesWithin(_, _, _)
CompletesWithin(its, rs, m) ==
  IF Len(Open(its, rs)) = 0 THEN TRUE
  ELSE /\ m > 0
       /\ Len(OpenActionable(its, rs)) > 0
       /\ \A k \in 1..Len(OpenActionable(its, rs)) :
            CompletesWithin(its, ToggleRun(rs, OpenActionable(its, rs)[k].id), m - 1)

\* C30: on a store whose dependsOn entries all name items of the store and
\* hold no cycle, in every run state reachable by toggle, complete-all-visible
\* and reset in which some item is not completed, an item that is not
\* completed is actionable; ticking actionable items completes all n items
\* within n ticks.
C30_NoDeadlock ==
  /\ (Len(Open(items, runnerState)) > 0) => Len(OpenActionable(items, runnerState)) > 0
  /\ CompletesWithin(items, runnerState, Len(Open(items, runnerState)))
  /\ Len(Open(items, runnerState)) <= Len(items)

C30_Witness ==
  /\ hist.op = "toggle" /\ Len(items) = 3
  /\ Len(Open(items, runnerState)) = 0
  /\ Len(items[1].dependsOn) = 2 /\ Len(items[2].dependsOn) = 1

====
